---- MODULE Spec2Model ----
(***************************************************************************)
(* Model of the FRED effective-corporate-tax-rate scripts:                 *)
(*   src/fetch_corporate_tax_data.py   (class CorporateTaxDataFetcher)      *)
(*   src/simple_effective_tax_rate.py  (fetch_fred_series,                  *)
(*                                      calculate_effective_rate)           *)
(* Every public operation is one action.  A call starts in pc = "ready",    *)
(* draws its arguments (and the HTTP response the server gives) from       *)
(* bounded sets, and leaves its outcome in ret / gets / out.               *)
(*                                                                         *)
(* Numbers are exact extended rationals [n, d]: d > 0 is the finite value  *)
(* n/d in lowest terms, d = 0 is +inf (n = 1), -inf (n = -1) or NaN        *)
(* (n = 0).  Binary floating-point rounding is not modelled.               *)
(***************************************************************************)
EXTENDS Integers, Sequences, FiniteSets, TLC

VARIABLES
    api_key,   \* the fetcher's credential
    pc,        \* "ready" before a call, "done" after it
    call,      \* the operation called and its arguments
    ret,       \* how the call ended: a returned value or a raised exception
    gets,      \* HTTP GET requests issued by the call
    out,       \* lines printed by the call
    locals     \* named intermediate values of the call

vars == <<api_key, pc, call, ret, gets, out, locals>>

-----------------------------------------------------------------------------
(* Bounds of the model *)

\* longest list of observation records in one API response (fetch_series)
MaxObs == 2
\* longest series handed to the rate calculator
MaxSeriesLen == 2
\* longest quarterly rate series handed to summary_statistics
MaxRateLen == 2
\* longest list of observation records per response inside fetch_all
MaxAllObs == 2

-----------------------------------------------------------------------------
(* Floating-point values as extended rationals *)

Abs(x) == IF x < 0 THEN -x ELSE x

Sign(x) == IF x < 0 THEN -1 ELSE IF x > 0 THEN 1 ELSE 0

RECURSIVE GCD(_, _)
GCD(a, b) == IF b = 0 THEN a ELSE GCD(b, a % b)

\* the float n/d, reduced; a zero denominator gives inf, -inf or NaN
Norm(n, d) ==
    IF d = 0 THEN [n |-> Sign(n), d |-> 0]
    ELSE LET g == GCD(Abs(n), Abs(d))
         IN  [n |-> (Sign(d) * n) \div g, d |-> Abs(d) \div g]

NaN == [n |-> 0, d |-> 0]

Num(i) == [n |-> i, d |-> 1]

IsNaN(x) == x.d = 0 /\ x.n = 0

IsFinite(x) == x.d > 0

\* x + y in IEEE arithmetic
FAdd(x, y) ==
    IF IsNaN(x) \/ IsNaN(y) THEN NaN
    ELSE IF x.d = 0 /\ y.d = 0 THEN (IF x.n = y.n THEN x ELSE NaN)
    ELSE IF x.d = 0 THEN x
    ELSE IF y.d = 0 THEN y
    ELSE Norm(x.n * y.d + y.n * x.d, x.d * y.d)

\* x * y in IEEE arithmetic
FMul(x, y) == Norm(x.n * y.n, x.d * y.d)

\* x / y in IEEE arithmetic: a zero divisor gives inf or NaN, never an error
FDiv(x, y) ==
    LET n == x.n * y.d
        d == x.d * y.n
    IN  IF x.d = 0 /\ y.d # 0 /\ y.n < 0 THEN Norm(-n, 0) ELSE Norm(n, d)

-----------------------------------------------------------------------------
(* Timestamps and the strings of an API response *)

NaT == [year |-> 0, month |-> 0, day |-> 0]

Date(y, m, d) == [year |-> y, month |-> m, day |-> d]

\* chronological order of two timestamps
Before(s, t) ==
    \/ s.year < t.year
    \/ s.year = t.year /\ s.month < t.month
    \/ s.year = t.year /\ s.month = t.month /\ s.day < t.day

\* the date strings a response may carry: three quarter starts, the empty
\* string and a string that is no date
DateStrings == {"1958-01-01", "1958-04-01", "1960-01-01", "", "first quarter"}

\* pd.to_datetime accepts these; the empty string becomes NaT
ParsesAsDate(s) == s \in {"1958-01-01", "1958-04-01", "1960-01-01", ""}

\* pd.to_datetime of one date string
ToDatetime(s) ==
    CASE s = "1958-01-01" -> Date(1958, 1, 1)
      [] s = "1958-04-01" -> Date(1958, 4, 1)
      [] s = "1960-01-01" -> Date(1960, 1, 1)
      [] OTHER -> NaT

\* the value strings a response may carry: numerals, the FRED missing-data
\* sentinel "." and a word
ValueStrings == {"0", "1", "2.0", ".", "n/a"}

\* pd.to_numeric(errors='coerce') of one value string
ToNumeric(s) ==
    CASE s = "0" -> Num(0)
      [] s = "1" -> Num(1)
      [] s = "2.0" -> Num(2)
      [] OTHER -> NaN

\* all sequences over S of length at most n
SeqUpTo(S, n) == UNION {[1..k -> S] : k \in 0..n}

-----------------------------------------------------------------------------
(* DataFrames, Series and call outcomes *)

\* a DataFrame: the kind of its index, its columns, and its rows in order;
\* a row is [date, value]
Frame(idx, cols, rows) == [index |-> idx, columns |-> cols, rows |-> rows]

\* pd.DataFrame(): no columns, no rows, a RangeIndex
EmptyDataFrame == Frame("RangeIndex", {}, <<>>)

\* DataFrame.empty
Empty(df) == df.columns = {} \/ df.rows = <<>>

Row(t, v) == [date |-> t, value |-> v]

Return(v) == [kind |-> "return", value |-> v]

Raise(e) == [kind |-> "raise", exc |-> e]

\* the set of index labels of a series
DatesOf(s) == {s[i].date : i \in 1..Len(s)}

\* Index.is_unique
IsUnique(s) == \A i, j \in 1..Len(s) : s[i].date = s[j].date => i = j

-----------------------------------------------------------------------------
(* fetch_series / fetch_fred_series *)

\* the credentials a fetcher may be constructed with: None, "" and a key
NoKey == "<None>"

ApiKeys == {NoKey, "", "0123456789abcdef"}

\* Python truthiness of api_key
Truthy(key) == key \notin {NoKey, ""}

\* what the GET meets: a response with status 200, a transport failure
\* (ConnectionError, Timeout) or a response with an error status
Outcomes == {"ok", "ConnectionError", "Timeout", "HTTPError"}

\* subclasses of requests.exceptions.RequestException
IsRequestException(e) == e \in {"ConnectionError", "Timeout", "HTTPError"}

Observation(d, v) == [date |-> d, value |-> v]

\* what the server may answer: a failure, or a list of observation records
Responses(n) ==
    {[outcome |-> o, observations |-> <<>>] : o \in Outcomes \ {"ok"}}
    \cup {[outcome |-> "ok", observations |-> obs] :
            obs \in SeqUpTo({Observation(d, v) : d \in DateStrings, v \in ValueStrings}, n)}

\* df['date'] = pd.to_datetime(df['date']); df['value'] = pd.to_numeric(...)
Coerce(obs) == [i \in 1..Len(obs) |-> Row(ToDatetime(obs[i].date), ToNumeric(obs[i].value))]

\* DropNa without the dropna call: every coerced row stays
DropNa_Skipped(rows) == rows

\* df[['date', 'value']].dropna(): a row goes when its date is NaT or its
\* value is NaN
DropNa(rows) == SelectSeq(rows, LAMBDA r : r.date # NaT /\ ~IsNaN(r.value))

\* the conversion of the observation records to a DataFrame.  A DataFrame
\* built from an empty list has no 'date' column, so df['date'] raises
\* KeyError; to_datetime raises ValueError on a string that is no date.
ToDataFrame(obs) ==
    IF obs = <<>> THEN Raise("KeyError")
    ELSE IF \E i \in 1..Len(obs) : ~ParsesAsDate(obs[i].date) THEN Raise("ValueError")
    ELSE Return(Frame("DatetimeIndex", {"value"}, DropNa(Coerce(obs))))

\* the body of the try block: get, raise_for_status, json, conversion
TryFetch(net) ==
    IF net.outcome # "ok" THEN Raise(net.outcome) ELSE ToDataFrame(net.observations)

\* Caught with an except clause for HTTPError alone
Caught_HTTPErrorOnly(e) == e = "HTTPError"

\* the except clause catches RequestException only
Caught(e) == IsRequestException(e)

\* MissingKey as "api_key is None": the empty string passes the guard
MissingKey_NoneOnly(key) == key = NoKey

\* the guard before any request is built
MissingKey(key) == ~Truthy(key)

\* CorporateTaxDataFetcher.fetch_series: the outcome, the number of GET
\* requests issued and the lines printed
FetchSeriesResult(key, series_id, net) ==
    IF MissingKey(key)
    THEN [ret |-> Raise("ValueError"), gets |-> 0, out |-> <<>>]
    ELSE LET r == TryFetch(net)
         IN  IF r.kind = "raise" /\ Caught(r.exc)
             THEN [ret |-> Return(EmptyDataFrame), gets |-> 1,
                   out |-> <<[line |-> "Error fetching data for", series_id |-> series_id,
                              exc |-> r.exc]>>]
             ELSE [ret |-> r, gets |-> 1, out |-> <<>>]

\* fetch_fred_series of the simple script: no credential check, no
\* raise_for_status and no try.  A transport failure propagates; the body of
\* an error response has no 'observations' key.
FetchFredSeriesResult(net) ==
    IF net.outcome \in {"ConnectionError", "Timeout"}
    THEN [ret |-> Raise(net.outcome), gets |-> 1, out |-> <<>>]
    ELSE IF net.outcome = "HTTPError"
    THEN [ret |-> Raise("KeyError"), gets |-> 1, out |-> <<>>]
    ELSE [ret |-> ToDataFrame(net.observations), gets |-> 1, out |-> <<>>]

SeriesIds == {"B075RC1Q027SBEA", "A053RC1Q027SBEA"}

-----------------------------------------------------------------------------
(* calculate_effective_tax_rate / calculate_effective_rate *)

\* JoinIndex as a left join: every label of the first series stays
JoinIndex_Left(a, b) == [i \in 1..Len(a) |-> a[i].date]

\* the index of pd.concat(..., axis=1, join='inner'): the labels of the first
\* series that the second has too, in the order of the first
JoinIndex(a, b) ==
    LET shared == SelectSeq(a, LAMBDA r : r.date \in DatesOf(b))
    IN  [i \in 1..Len(shared) |-> shared[i].date]

\* the value a series holds at a label; NaN where it has none (reindexing)
ValueAt(s, t) ==
    IF t \in DatesOf(s) THEN s[CHOOSE i \in 1..Len(s) : s[i].date = t].value ELSE NaN

\* pd.concat([a, b], axis=1, join='inner') with the two columns named: one
\* row per label of the joined index.  Reindexing a series whose index holds
\* a label twice raises ValueError.
Concat(a, b) ==
    IF ~IsUnique(a) \/ ~IsUnique(b) THEN Raise("ValueError")
    ELSE LET idx == JoinIndex(a, b)
         IN  Return([i \in 1..Len(idx) |->
                       [date |-> idx[i],
                        tax_receipts |-> ValueAt(a, idx[i]),
                        profits_before_tax |-> ValueAt(b, idx[i])]])

\* Rate with the operands exchanged
Rate_Swapped(tax, profit) == FMul(FDiv(profit, tax), Num(100))

\* (tax / profit) * 100 in float arithmetic
Rate(tax, profit) == FMul(FDiv(tax, profit), Num(100))

\* CorporateTaxDataFetcher.calculate_effective_tax_rate
CalculateEffectiveTaxRateResult(tax_receipts, profits_before_tax) ==
    LET aligned == Concat(tax_receipts, profits_before_tax)
    IN  IF aligned.kind = "raise" THEN aligned
        ELSE Return([i \in 1..Len(aligned.value) |->
                       Row(aligned.value[i].date,
                           Rate(aligned.value[i].tax_receipts,
                                aligned.value[i].profits_before_tax))])

\* calculate_effective_rate of the simple script: the same join and division
CalculateEffectiveRateResult(tax_receipts, profits_before_tax) ==
    LET combined == Concat(tax_receipts, profits_before_tax)
    IN  IF combined.kind = "raise" THEN combined
        ELSE Return([i \in 1..Len(combined.value) |->
                       Row(combined.value[i].date,
                           Rate(combined.value[i].tax_receipts,
                                combined.value[i].profits_before_tax))])

\* the index labels of the series handed to the calculator
Timestamps == {Date(1958, 1, 1), Date(1958, 4, 1), Date(1960, 1, 1)}

\* tax receipts and profits as fetched: whole numbers, zero included
TaxValues == {Num(0), Num(1)}

ProfitValues == {Num(0), Num(2)}

\* the series a fetch can hand on: any order, a date possibly twice
SeriesInputs(values, n) == SeqUpTo({Row(t, v) : t \in Timestamps, v \in values}, n)

-----------------------------------------------------------------------------
(* summary_statistics *)

\* range(1950, 2030, 10)
FirstDecade == 1950

DecadeStop == 2030

DecadeStep == 10

RECURSIVE Range(_, _, _)
Range(start, stop, step) ==
    IF start >= stop THEN <<>> ELSE <<start>> \o Range(start + step, stop, step)

Decades == Range(FirstDecade, DecadeStop, DecadeStep)

\* the values of a series, in order
ValuesOf(s) == [i \in 1..Len(s) |-> s[i].value]

RECURSIVE Total(_)
Total(vs) == IF vs = <<>> THEN Num(0) ELSE FAdd(Head(vs), Total(Tail(vs)))

\* Mean that lets NaN into the sum
Mean_KeepNaN(s) ==
    IF s = <<>> THEN NaN ELSE FDiv(Total(ValuesOf(s)), Num(Len(s)))

\* Series.mean(): NaN values are skipped; the mean of nothing is NaN
Mean(s) ==
    LET vs == SelectSeq(ValuesOf(s), LAMBDA v : ~IsNaN(v))
    IN  IF vs = <<>> THEN NaN ELSE FDiv(Total(vs), Num(Len(vs)))

\* n/d (d > 0) rounded to an integer, a tie going to the even neighbour
RoundHalfEven(n, d) ==
    LET q == n \div d
        r == n % d
    IN  IF 2 * r < d THEN q
        ELSE IF 2 * r > d THEN q + 1
        ELSE IF q % 2 = 0 THEN q ELSE q + 1

\* format(x, '.2f'): hundredths for a finite value, else nan / inf / -inf
Fmt2(x) ==
    IF IsNaN(x) THEN [text |-> "nan"]
    ELSE IF x.d = 0 THEN [text |-> IF x.n > 0 THEN "inf" ELSE "-inf"]
    ELSE [text |-> "fixed", hundredths |-> RoundHalfEven(100 * x.n, x.d)]

\* InDecade with the upper year let in
InDecade_Inclusive(t, decade) == t.year >= decade /\ t.year <= decade + 10

\* (index.year >= decade) & (index.year < decade + 10)
InDecade(t, decade) == t.year >= decade /\ t.year < decade + 10

\* rate_q[...] restricted to one decade
DecadeData(rate, decade) == SelectSeq(rate, LAMBDA r : InDecade(r.date, decade))

\* the "Decade Averages" loop: one line per decade that has observations
DecadeLines(rate) ==
    LET shown == SelectSeq(Decades, LAMBDA dec : DecadeData(rate, dec) # <<>>)
    IN  [i \in 1..Len(shown) |->
           [line |-> "decade average", decade |-> shown[i],
            mean |-> Fmt2(Mean(DecadeData(rate, shown[i])))]]

\* the lines printed for one rate series up to its Max line, and the
\* exception that ends them: index[0] of an empty series raises IndexError;
\* idxmin() of a series of NaN alone gives NaN, which has neither strftime
\* nor year (AttributeError).  The figures of the median, deviation and
\* extremes lines are not modelled.
StatLines(rate, title) ==
    IF rate = <<>> THEN [out |-> <<>>, exc |-> "IndexError"]
    ELSE LET head == <<[line |-> title, first |-> rate[1].date.year,
                        last |-> rate[Len(rate)].date.year],
                       [line |-> "Mean", mean |-> Fmt2(Mean(rate))],
                       [line |-> "Median"],
                       [line |-> "Std Dev"]>>
         IN  IF \A i \in 1..Len(rate) : IsNaN(rate[i].value)
             THEN [out |-> head, exc |-> "AttributeError"]
             ELSE [out |-> head \o <<[line |-> "Min"], [line |-> "Max"]>>, exc |-> "none"]

Banner == <<[line |-> "===="], [line |-> "SUMMARY STATISTICS"], [line |-> "===="]>>

QuarterlyKey == "effective_tax_rate_quarterly"

AnnualKey == "effective_tax_rate_annual"

\* the quarterly part of summary_statistics
QuarterlyLines(data_dict) ==
    IF QuarterlyKey \notin DOMAIN data_dict THEN [out |-> <<>>, exc |-> "none"]
    ELSE LET rate_q == data_dict[QuarterlyKey]
             st == StatLines(rate_q, "Quarterly Effective Tax Rate")
         IN  IF st.exc # "none" THEN st
             ELSE [out |-> st.out \o <<[line |-> "Decade Averages:"]>> \o DecadeLines(rate_q),
                   exc |-> "none"]

\* the annual part of summary_statistics
AnnualLines(data_dict) ==
    IF AnnualKey \notin DOMAIN data_dict THEN [out |-> <<>>, exc |-> "none"]
    ELSE StatLines(data_dict[AnnualKey], "Annual Effective Tax Rate")

\* CorporateTaxDataFetcher.summary_statistics: what it prints and how it ends
SummaryStatisticsResult(data_dict) ==
    LET q == QuarterlyLines(data_dict)
    IN  IF q.exc # "none" THEN [ret |-> Raise(q.exc), out |-> Banner \o q.out]
        ELSE LET a == AnnualLines(data_dict)
             IN  [ret |-> IF a.exc # "none" THEN Raise(a.exc) ELSE Return("None"),
                  out |-> Banner \o q.out \o a.out]

\* the rates the calculator can produce from the fetched values
RateValues == {Rate(t, p) : t \in TaxValues, p \in ProfitValues}

\* index labels of a quarterly rate series: before the first decade, two
\* quarters of one year, and the next decade
StatDates == {Date(1949, 10, 1), Date(1958, 1, 1), Date(1958, 4, 1), Date(1960, 1, 1)}

\* the rate series a calculator can return: date-unique, in any order
RateSeries(n) ==
    {s \in SeqUpTo({Row(t, v) : t \in StatDates, v \in RateValues}, n) : IsUnique(s)}

\* annual rate series: year-end labels
AnnualSeries ==
    {<<>>, <<Row(Date(1958, 12, 31), Num(50))>>, <<Row(Date(1958, 12, 31), NaN)>>,
     <<Row(Date(1958, 12, 31), Num(50)), Row(Date(1959, 12, 31), NaN)>>}

\* the dictionaries handed to summary_statistics: each rate entry present
\* or not
DataDicts(n) ==
    {[k \in {} |-> <<>>]}
    \cup {[k \in {QuarterlyKey} |-> q] : q \in RateSeries(n)}
    \cup {[k \in {AnnualKey} |-> a] : a \in AnnualSeries}
    \cup {[k \in {QuarterlyKey, AnnualKey} |-> IF k = QuarterlyKey THEN q ELSE a] :
            q \in RateSeries(n), a \in AnnualSeries}

-----------------------------------------------------------------------------
(* fetch_all_corporate_tax_data *)

\* the years of the rows of a frame
YearsOf(rows) == {rows[i].date.year : i \in 1..Len(rows)}

MinOf(S) == CHOOSE x \in S : \A y \in S : x <= y

MaxOf(S) == CHOOSE x \in S : \A y \in S : x >= y

\* df.resample('A').sum(): one row per calendar year from the first observed
\* year to the last, labelled with the year's last day and holding the sum of
\* the year's values, which is 0 for a year without any.  A frame without a
\* DatetimeIndex raises TypeError; a frame without rows gives one without rows.
ResampleAnnualSum(df) ==
    IF df.index # "DatetimeIndex" THEN Raise("TypeError")
    ELSE IF df.rows = <<>> THEN Return(df)
    ELSE LET first == MinOf(YearsOf(df.rows))
             last == MaxOf(YearsOf(df.rows))
         IN  Return(Frame("DatetimeIndex", df.columns,
                 [i \in 1..(last - first + 1) |->
                     Row(Date(first + i - 1, 12, 31),
                         Total(ValuesOf(SelectSeq(df.rows,
                                 LAMBDA r : r.date.year = first + i - 1))))]))

\* the outcome of fetch_all when an exception leaves it
Propagate(exc, n, lines) == [ret |-> exc, gets |-> n, out |-> lines, locals |-> <<>>]

\* lines 187-208: the annual fetch, the conversion of the quarterly frames to
\* annual ones, the annual rate, the return
FetchAllAnnual(key, results, tax_receipts_q, profits_before_tax_q, n_annual, n, lines) ==
    LET f4 == FetchSeriesResult(key, "FCTAX", n_annual)
        lines4 == lines \o <<[line |-> "Fetching annual data:"]>> \o f4.out
    IN  IF f4.ret.kind = "raise" THEN Propagate(f4.ret, n + f4.gets, lines4)
        ELSE LET results4 == results @@ ("tax_receipts_annual" :> f4.ret.value)
             IN  IF Empty(profits_before_tax_q)
                 THEN [ret |-> Return(results4), gets |-> n + f4.gets, out |-> lines4,
                       locals |-> <<>>]
                 ELSE LET lines5 == lines4 \o <<[line |-> "Converting quarterly data to annual..."]>>
                          profits_before_tax_a == ResampleAnnualSum(profits_before_tax_q)
                          tax_receipts_q_annual == ResampleAnnualSum(tax_receipts_q)
                      IN  IF profits_before_tax_a.kind = "raise"
                          THEN Propagate(profits_before_tax_a, n + f4.gets, lines5)
                          ELSE IF tax_receipts_q_annual.kind = "raise"
                          THEN Propagate(tax_receipts_q_annual, n + f4.gets, lines5)
                          ELSE LET effective_rate_a ==
                                     CalculateEffectiveTaxRateResult(
                                         tax_receipts_q_annual.value.rows,
                                         profits_before_tax_a.value.rows)
                               IN  IF effective_rate_a.kind = "raise"
                                   THEN Propagate(effective_rate_a, n + f4.gets, lines5)
                                   ELSE [ret |-> Return(results4
                                                   @@ (AnnualKey :> effective_rate_a.value)),
                                         gets |-> n + f4.gets,
                                         out |-> lines5,
                                         locals |->
                                           ("profits_before_tax_a" :> profits_before_tax_a.value)
                                           @@ ("tax_receipts_q_annual" :> tax_receipts_q_annual.value)]

\* lines 178-185: the quarterly rate, when both quarterly frames have data
FetchAllQuarterlyRate(key, results, tax_receipts_q, profits_before_tax_q, n_annual, n, lines) ==
    IF ~Empty(tax_receipts_q) /\ ~Empty(profits_before_tax_q)
    THEN LET effective_rate_q ==
                 CalculateEffectiveTaxRateResult(tax_receipts_q.rows, profits_before_tax_q.rows)
             lines3 == lines \o <<[line |-> "Calculating quarterly effective tax rate..."]>>
         IN  IF effective_rate_q.kind = "raise" THEN Propagate(effective_rate_q, n, lines3)
             ELSE FetchAllAnnual(key, results @@ (QuarterlyKey :> effective_rate_q.value),
                                 tax_receipts_q, profits_before_tax_q, n_annual, n, lines3)
    ELSE FetchAllAnnual(key, results, tax_receipts_q, profits_before_tax_q, n_annual, n, lines)

\* CorporateTaxDataFetcher.fetch_all_corporate_tax_data: the three quarterly
\* fetches (lines 156-176), then the rest.  An exception of a fetch or of a
\* calculation leaves the call at once.
FetchAllResult(key, n_tax, n_profit, n_after, n_annual) ==
    LET f1 == FetchSeriesResult(key, "B075RC1Q027SBEA", n_tax)
        lines1 == <<[line |-> "Fetching corporate tax data from FRED..."],
                    [line |-> "Fetching quarterly data:"]>> \o f1.out
    IN  IF f1.ret.kind = "raise" THEN Propagate(f1.ret, f1.gets, lines1)
        ELSE
    LET f2 == FetchSeriesResult(key, "A053RC1Q027SBEA", n_profit)
        lines2 == lines1 \o f2.out
    IN  IF f2.ret.kind = "raise" THEN Propagate(f2.ret, f1.gets + f2.gets, lines2)
        ELSE
    LET f3 == FetchSeriesResult(key, "CP", n_after)
        lines3 == lines2 \o f3.out
        n == f1.gets + f2.gets + f3.gets
    IN  IF f3.ret.kind = "raise" THEN Propagate(f3.ret, n, lines3)
        ELSE FetchAllQuarterlyRate(key,
                 ("tax_receipts_quarterly" :> f1.ret.value)
                 @@ ("profits_before_tax_quarterly" :> f2.ret.value)
                 @@ ("profits_after_tax_quarterly" :> f3.ret.value),
                 f1.ret.value, f2.ret.value, n_annual, n, lines3)

\* what the server may answer to one fetch of fetch_all: a failure or a list
\* of records with the given date and value strings
AllResponses(dates, values, n) ==
    {[outcome |-> o, observations |-> <<>>] : o \in Outcomes \ {"ok"}}
    \cup {[outcome |-> "ok", observations |-> obs] :
            obs \in SeqUpTo({Observation(d, v) : d \in dates, v \in values}, n)}

QuarterStarts == {"1958-01-01", "1958-04-01", "1960-01-01"}

\* answers to the two fetches whose frames are only stored
StoredResponses ==
    {[outcome |-> "HTTPError", observations |-> <<>>],
     [outcome |-> "ok", observations |-> <<Observation("1958-01-01", "1")>>]}

-----------------------------------------------------------------------------
(* The state machine *)

Init ==
    /\ api_key \in ApiKeys
    /\ pc = "ready"
    /\ call = [op |-> "none"]
    /\ ret = [kind |-> "none"]
    /\ gets = 0
    /\ out = <<>>
    /\ locals = <<>>

FetchSeries ==
    /\ pc = "ready"
    /\ \E series_id \in SeriesIds, net \in Responses(MaxObs) :
         LET r == FetchSeriesResult(api_key, series_id, net)
         IN  /\ call' = [op |-> "fetch_series", series_id |-> series_id, net |-> net]
             /\ ret' = r.ret
             /\ gets' = r.gets
             /\ out' = r.out
    /\ pc' = "done"
    /\ UNCHANGED <<api_key, locals>>

FetchFredSeries ==
    /\ pc = "ready"
    /\ \E series_id \in SeriesIds, net \in Responses(MaxObs) :
         LET r == FetchFredSeriesResult(net)
         IN  /\ call' = [op |-> "fetch_fred_series", series_id |-> series_id, net |-> net]
             /\ ret' = r.ret
             /\ gets' = r.gets
             /\ out' = r.out
    /\ pc' = "done"
    /\ UNCHANGED <<api_key, locals>>

CalculateEffectiveTaxRate ==
    /\ pc = "ready"
    /\ \E a \in SeriesInputs(TaxValues, MaxSeriesLen),
          b \in SeriesInputs(ProfitValues, MaxSeriesLen) :
         /\ call' = [op |-> "calculate_effective_tax_rate", a |-> a, b |-> b]
         /\ ret' = CalculateEffectiveTaxRateResult(a, b)
    /\ pc' = "done"
    /\ UNCHANGED <<api_key, gets, out, locals>>

CalculateEffectiveRate ==
    /\ pc = "ready"
    /\ \E a \in SeriesInputs(TaxValues, MaxSeriesLen),
          b \in SeriesInputs(ProfitValues, MaxSeriesLen) :
         /\ call' = [op |-> "calculate_effective_rate", a |-> a, b |-> b]
         /\ ret' = CalculateEffectiveRateResult(a, b)
    /\ pc' = "done"
    /\ UNCHANGED <<api_key, gets, out, locals>>

SummaryStatistics ==
    /\ pc = "ready"
    /\ \E data_dict \in DataDicts(MaxRateLen) :
         LET r == SummaryStatisticsResult(data_dict)
         IN  /\ call' = [op |-> "summary_statistics", data_dict |-> data_dict]
             /\ ret' = r.ret
             /\ out' = r.out
    /\ pc' = "done"
    /\ UNCHANGED <<api_key, gets, locals>>

NextStats == SummaryStatistics

SpecStats == Init /\ [][NextStats]_vars

FetchAllCorporateTaxData ==
    /\ pc = "ready"
    /\ \E n_tax \in AllResponses(QuarterStarts, {"0", "1", "."}, MaxAllObs),
          n_profit \in AllResponses(QuarterStarts, {"0", "2.0", "."}, MaxAllObs),
          n_after \in StoredResponses,
          n_annual \in StoredResponses :
         LET r == FetchAllResult(api_key, n_tax, n_profit, n_after, n_annual)
         IN  /\ call' = [op |-> "fetch_all_corporate_tax_data", n_tax |-> n_tax,
                         n_profit |-> n_profit, n_after |-> n_after, n_annual |-> n_annual]
             /\ ret' = r.ret
             /\ gets' = r.gets
             /\ out' = r.out
             /\ locals' = r.locals
    /\ pc' = "done"
    /\ UNCHANGED api_key

NextAll == FetchAllCorporateTaxData

SpecAll == Init /\ [][NextAll]_vars

NextFetch == FetchSeries \/ FetchFredSeries

NextRate == CalculateEffectiveTaxRate \/ CalculateEffectiveRate

SpecRate == Init /\ [][NextRate]_vars

SpecFetch == Init /\ [][NextFetch]_vars

-----------------------------------------------------------------------------
(* Claims about fetch_series (checked under SpecFetch) *)

\* the call made was fetch_series with a credential and the server answered
\* with status 200
FetchedOk == call.op = "fetch_series" /\ Truthy(api_key) /\ call.net.outcome = "ok"

\* C4: when the API answers successfully with an empty observations list,
\* fetch_series returns an empty series and raises nothing.
C4_EmptyObservationsGiveEmptySeries ==
    (FetchedOk /\ call.net.observations = <<>>)
        => (ret.kind = "return" /\ ret.value.rows = <<>>)

\* C5: a fetch_series call made without a credential (None or "") raises
\* ValueError and issues no GET.
C5_NoCredentialNoRequest ==
    (call.op = "fetch_series" /\ api_key \in {NoKey, ""})
        => (ret.kind = "raise" /\ ret.exc = "ValueError" /\ gets = 0)

C5_Witness ==
    /\ call.op = "fetch_series"
    /\ api_key = ""
    /\ call.net.outcome = "ok"
    /\ call.net.observations # <<>>
    /\ ret.kind = "raise"
    /\ gets = 0

\* C6: when the GET fails at the transport level or answers with an error
\* status, fetch_series logs the failure and returns an empty series; it
\* raises nothing.
C6_RequestFailureIsLoggedAndEmpty ==
    (call.op = "fetch_series" /\ Truthy(api_key)
       /\ call.net.outcome \in {"ConnectionError", "Timeout", "HTTPError"})
        => /\ ret.kind = "return"
           /\ ret.value.rows = <<>>
           /\ Len(out) = 1
           /\ out[1].exc = call.net.outcome
           /\ out[1].series_id = call.series_id

C6_Witness ==
    /\ call.op = "fetch_series"
    /\ Truthy(api_key)
    /\ call.net.outcome = "ConnectionError"
    /\ gets = 1
    /\ ret.kind = "return"
    /\ Len(out) = 1

\* the value strings that are numerals, and the numbers they denote
C7_IsNumeral(s) == s \in {"0", "1", "2.0"}

C7_NumberOf(s) == IF s = "0" THEN 0 ELSE IF s = "1" THEN 1 ELSE 2

\* the rows are exactly the given records, in order, with their numbers
C7_RowsAre(rows, kept) ==
    /\ Len(rows) = Len(kept)
    /\ \A i \in 1..Len(rows) :
         /\ i <= Len(kept)
         /\ rows[i].value.d = 1
         /\ rows[i].value.n = C7_NumberOf(kept[i].value)

\* a fetch (of either script) that answered 200 with at least one record and
\* returned a series
C7_Returned ==
    /\ call.op \in {"fetch_series", "fetch_fred_series"}
    /\ call.net.outcome = "ok"
    /\ call.net.observations # <<>>
    /\ ret.kind = "return"

\* C7 as claimed: the returned series holds exactly the records whose value
\* string parses as a number.
C7_ExactlyTheNumericRecords ==
    C7_Returned =>
        C7_RowsAre(ret.value.rows,
                   SelectSeq(call.net.observations, LAMBDA o : C7_IsNumeral(o.value)))

\* C7 amended: the returned series holds exactly the records whose value
\* string parses as a number and whose date is not missing, in the order of
\* the response; every row carries a date.
C7_ExactlyTheNumericDatedRecords ==
    C7_Returned =>
        /\ C7_RowsAre(ret.value.rows,
                      SelectSeq(call.net.observations,
                                LAMBDA o : C7_IsNumeral(o.value) /\ o.date # ""))
        /\ \A i \in 1..Len(ret.value.rows) : ret.value.rows[i].date # NaT

C7_Witness ==
    /\ C7_Returned
    /\ call.op = "fetch_series"
    /\ call.net.observations =
         <<Observation("1958-01-01", "2.0"), Observation("1958-04-01", ".")>>
    /\ ret.value.rows = <<Row(Date(1958, 1, 1), Num(2))>>

\* C8: the series fetch_series returns is in strictly ascending date order
\* (ascending, no date twice), whatever the records of the response.
C8_AscendingAndUnique ==
    (call.op = "fetch_series" /\ ret.kind = "return")
        => \A i, j \in 1..Len(ret.value.rows) :
             i < j => Before(ret.value.rows[i].date, ret.value.rows[j].date)

-----------------------------------------------------------------------------
(* Claims about the rate calculator (checked under SpecRate) *)

\* a call of either rate calculator that returned a series
RateReturned ==
    /\ call.op \in {"calculate_effective_tax_rate", "calculate_effective_rate"}
    /\ ret.kind = "return"

C1_Min(m, n) == IF m < n THEN m ELSE n

\* C1: the dates of the returned rate series are exactly the dates both
\* inputs have, and the series is no longer than the shorter input; two
\* date-unique inputs always get a series back.
C1_DatesAreTheIntersection ==
    /\ RateReturned =>
         /\ DatesOf(ret.value) = DatesOf(call.a) \cap DatesOf(call.b)
         /\ Len(ret.value) <= C1_Min(Len(call.a), Len(call.b))
    /\ (call.op \in {"calculate_effective_tax_rate", "calculate_effective_rate"}
          /\ IsUnique(call.a) /\ IsUnique(call.b)) => ret.kind = "return"

C1_Witness ==
    /\ RateReturned
    /\ call.op = "calculate_effective_tax_rate"
    /\ DatesOf(call.a) = {Date(1958, 1, 1), Date(1958, 4, 1)}
    /\ DatesOf(call.b) = {Date(1958, 1, 1), Date(1960, 1, 1)}
    /\ DatesOf(ret.value) = {Date(1958, 1, 1)}
    /\ Len(ret.value) = 1

\* r is the float 100 * t / p for finite t and p
C2_IsRateOf(r, t, p) ==
    IF p.n # 0
    THEN r.d > 0 /\ r.n * p.n * t.d = 100 * t.n * p.d * r.d
    ELSE r.d = 0 /\ r.n = Sign(t.n)

\* C2: at every date both inputs have, the returned series has the value
\* 100 * A[d] / B[d], A the first argument and B the second (inf or NaN when
\* B[d] is zero, as float division gives).
C2_RateIsHundredTimesTaxOverProfit ==
    RateReturned =>
        \A j \in 1..Len(call.a), k \in 1..Len(call.b) :
            call.a[j].date = call.b[k].date =>
                \E i \in 1..Len(ret.value) :
                    /\ ret.value[i].date = call.a[j].date
                    /\ C2_IsRateOf(ret.value[i].value, call.a[j].value, call.b[k].value)

C2_Witness ==
    /\ RateReturned
    /\ call.a = <<Row(Date(1958, 1, 1), Num(1)), Row(Date(1958, 4, 1), Num(1))>>
    /\ call.b = <<Row(Date(1958, 1, 1), Num(2))>>
    /\ ret.value = <<Row(Date(1958, 1, 1), Num(50))>>

-----------------------------------------------------------------------------
(* Claims about summary_statistics (checked under SpecStats) *)

\* summary_statistics was called with a quarterly rate series
C9_Called == call.op = "summary_statistics" /\ QuarterlyKey \in DOMAIN call.data_dict

C9_RateQ == call.data_dict[QuarterlyKey]

C9_Buckets == {1950, 1960, 1970, 1980, 1990, 2000, 2010, 2020}

\* the positions of the observations of one bucket
C9_Members(decade) ==
    {i \in 1..Len(C9_RateQ) :
        C9_RateQ[i].date.year >= decade /\ C9_RateQ[i].date.year <= decade + 9}

\* the decade-average entries printed for one bucket
C9_Entries(decade) ==
    {i \in 1..Len(out) : out[i].line = "decade average" /\ out[i].decade = decade}

RECURSIVE C9_Sum(_)
C9_Sum(I) ==
    IF I = {} THEN Num(0)
    ELSE LET i == CHOOSE i \in I : TRUE
         IN  FAdd(C9_RateQ[i].value, C9_Sum(I \ {i}))

\* the arithmetic mean of the observations at the positions I, to 2 decimals
C9_MeanOf(I) == Fmt2(IF I = {} THEN NaN ELSE FDiv(C9_Sum(I), Num(Cardinality(I))))

\* C9 as claimed: a bucket has an entry exactly when the series has an
\* observation in it, and the entry is the mean of all observations of the
\* bucket.
C9_EntryIffObservationsMeanOfAll ==
    C9_Called =>
        \A decade \in C9_Buckets :
            /\ (C9_Entries(decade) # {}) <=> (C9_Members(decade) # {})
            /\ \A e \in C9_Entries(decade) : out[e].mean = C9_MeanOf(C9_Members(decade))

\* C9 amended: when the series has a value that is not NaN, a bucket has an
\* entry (one) exactly when the series has an observation in it, and the
\* entry is the mean of the bucket's observations that are not NaN (nan when
\* all are); a series without such a value gets no entry at all.
C9_EntryIffObservationsMeanOfNonNaN ==
    C9_Called =>
        IF \E i \in 1..Len(C9_RateQ) : ~IsNaN(C9_RateQ[i].value)
        THEN \A decade \in C9_Buckets :
               /\ (C9_Entries(decade) # {}) <=> (C9_Members(decade) # {})
               /\ Cardinality(C9_Entries(decade)) <= 1
               /\ \A e \in C9_Entries(decade) :
                    out[e].mean =
                      C9_MeanOf({i \in C9_Members(decade) : ~IsNaN(C9_RateQ[i].value)})
        ELSE \A decade \in C9_Buckets : C9_Entries(decade) = {}

C9_Witness ==
    /\ C9_Called
    /\ C9_RateQ = <<Row(Date(1958, 1, 1), Num(50)), Row(Date(1958, 4, 1), Num(0))>>
    /\ \E e \in C9_Entries(1950) : out[e].mean = [text |-> "fixed", hundredths |-> 2500]
    /\ C9_Entries(1960) = {}

-----------------------------------------------------------------------------
(* Claims about fetch_all_corporate_tax_data (checked under SpecAll) *)

\* the years of the model's quarter starts, gap year included
C3_Years == 1958..1960

\* the annual frame has a row for a year exactly when the quarterly frame
\* has an observation in it, and that row holds the sum of the year's
\* observations
C3_IsAnnualSumOf(annual, quarterly) ==
    \A y \in C3_Years :
        /\ (y \in YearsOf(annual)) <=> (y \in YearsOf(quarterly))
        /\ \A i \in 1..Len(annual) :
             annual[i].date.year = y =>
                 annual[i].value =
                     Total(ValuesOf(SelectSeq(quarterly, LAMBDA r : r.date.year = y)))

\* C3: the annual frames fetch_all derives from the quarterly ones hold, for
\* each year, the sum of that year's quarterly observations, and nothing for
\* a year without observations (a gap year included).
C3_AnnualIsSumOfObservedYears ==
    (call.op = "fetch_all_corporate_tax_data" /\ "profits_before_tax_a" \in DOMAIN locals)
        => /\ C3_IsAnnualSumOf(locals["profits_before_tax_a"].rows,
                               ret.value["profits_before_tax_quarterly"].rows)
           /\ C3_IsAnnualSumOf(locals["tax_receipts_q_annual"].rows,
                               ret.value["tax_receipts_quarterly"].rows)

\* what fetch_series gave fetch_all for one of its requests
C10_Fetched(net) == FetchSeriesResult(api_key, "", net).ret

\* all four fetches of the call returned a frame
C10_AllFetched ==
    /\ call.op = "fetch_all_corporate_tax_data"
    /\ Truthy(api_key)
    /\ \A net \in {call.n_tax, call.n_profit, call.n_after, call.n_annual} :
         C10_Fetched(net).kind = "return"

\* C10: whenever the quarterly tax frame or the quarterly profits frame is
\* empty, fetch_all returns and its results hold neither rate entry.
C10_EmptyQuarterlyFrameMeansNoRate ==
    (C10_AllFetched
       /\ (Empty(C10_Fetched(call.n_tax).value) \/ Empty(C10_Fetched(call.n_profit).value)))
        => /\ ret.kind = "return"
           /\ QuarterlyKey \notin DOMAIN ret.value
           /\ AnnualKey \notin DOMAIN ret.value

-----------------------------------------------------------------------------
(* Every operation together *)

Next == NextFetch \/ NextRate \/ NextStats \/ NextAll

Spec == Init /\ [][Next]_vars

====
